---- MODULE Spec2Model ----
(***************************************************************************)
(* Model of the experiment pipeline of migros-quantum-safe-analysis:       *)
(*   src/data_collection.py  ClientPerfCollector, DockerStatCollector,     *)
(*                           extract                                       *)
(*   src/analysis.py         run_cmd_background, run_cmd, run_analysis     *)
(*                                                                         *)
(* Each behaviour exercises one unit, selected by `sut` in Init.  The      *)
(* units share no state: a collector is driven by one caller thread that   *)
(* may call its methods in any order, and by its own worker thread.        *)
(***************************************************************************)
EXTENDS Integers, Sequences, FiniteSets, TLC

----------------------------------------------------------------------------
(* Bounds of the model *)
MaxReq == 2
MaxElapsed == 1
MaxClock == 2
MaxMsgLen == 2
MaxStops == 2
MaxN == 2
MaxSnap == 3
MaxLen == 2
MaxTs == 1
MaxSpinup == 1
MaxLines == 2
MaxTimeout == 1
MaxConts == 2
MaxIfaces == 1
MaxRec == 2
MaxCount == 1
MaxSources == 3
MaxItems == 3

(* Program constants *)
TIMEOUT_SEC == 9

----------------------------------------------------------------------------
VARIABLES
    sut,              \* the unit this behaviour exercises
    clock,            \* wall clock, time.time()
    \* ---- ClientPerfCollector (self.*) and its worker load_continuous
    cp_message_length,   \* self.message_length
    cp_collector_thread, \* self.collector_thread: "new" | "running" | "exited"
    cp_stop_event,       \* self.stop_event
    cp_self_data,        \* self.data
    cp_pc,               \* position of load_continuous
    cp_data,             \* local data of load_continuous
    cp_request_id,       \* local request_id
    cp_start,            \* local start
    cp_elapsed,          \* local elapsed
    cp_exc,              \* exception that left load_continuous, "" if none
    cp_caller,           \* the caller thread: "idle" | "join"
    cp_stops,            \* history: how every finished stop_collecting call ended
    cp_outcomes,         \* history: how every issued request ended
    cp_at_stop,          \* history: Len(cp_data) when stop_event was set, -1 before
    \* ---- DockerStatCollector (self.*), its worker collect and the generator
    ds_containers,       \* self.containers: None or a list of containers
    ds_num_containers,   \* self.num_containers
    ds_collector_thread, \* self.collector_thread: "new" | "running" | "exited"
    ds_stop_event,       \* self.stop_event
    ds_self_data,        \* self.data
    ds_pc,               \* position of collect
    ds_data,             \* local data of collect
    ds_gen_pc,           \* position of the running stream_generator
    ds_tmp_conts,        \* tmp_conts of stream_generator, the part not yet visited
    ds_rr,               \* roundrobin: the streams still active, next one first
    ds_turn,             \* history: place in the current round of the open streams
    ds_ended,            \* history: one of the open streams has ended
    ds_exc,              \* exception that left collect, "" if none
    ds_caller,           \* the caller thread: "idle" | "join"
    ds_stops,            \* history: how every finished stop_collecting call ended
    ds_set_at_start,     \* history: containers were set when start_collecting was called
    ds_set_after_start,  \* history: set_containers was called after start_collecting
    ds_uniform,          \* history: the streams opened together always held equally
                         \* many snapshots
    ds_all_complete,     \* history: every snapshot so far had a networks section
    \* ---- run_analysis
    ra_pc,               \* position of run_analysis
    ra_spinup_time,      \* parameter spinup_time
    ra_client_perf_data, \* local client_perf_data
    ra_docker_stats_data,\* local docker_stats_data
    ra_stopped_perf,     \* history: client_perf_data as stop_collecting returned it
    ra_stopped_stats,    \* history: docker_stats_data as stop_collecting returned it
    ra_failed,           \* the step whose exception left run_analysis, "" if none
    ra_done,             \* history: the steps whose commands succeeded
    ra_stat_started,     \* stat_collector.start_collecting() was called
    ra_stat_set,         \* stat_collector.set_containers() was called
    ra_load_started,     \* load_collector.start_collecting() was called
    ra_proc,             \* docker_compose_proc: "none" | "running" | "killed"
    ra_containers,       \* local containers: None before the listing
    ra_cont,             \* index of the running `for cont in containers` loop
    ra_ifaces,           \* interfaces of the current container not yet shaped
    ra_detected,         \* history: number of interfaces detected
    ra_visited,          \* history: number of containers whose interfaces were listed
    ra_tc_codes,         \* history: exit code of every tc command run
    ra_kill_thread,      \* the thread t running cont.kill
    ra_kills,            \* history: how the kill of every container went
    ra_result,           \* the value run_analysis returned, None before
    \* ---- run_cmd_background and the process it launches
    bg_pc,               \* position of run_cmd_background
    bg_expected,         \* parameter expected: TRUE when a marker is given
    bg_timeout,          \* parameter timeout
    bg_start_time,       \* local start_time
    bg_buffer,           \* local buffer, as the lines read
    proc_alive,          \* the launched process has not exited
    proc_stdout,         \* lines the process wrote that were not read yet
    proc_written,        \* history: number of lines the process wrote
    proc_marker_at,      \* history: the clock when the process first wrote the
                         \* marker, -1 before
    \* ---- extract, called on one raw snapshot as collect calls it
    ex_pc,               \* "call" before the call, "done" after
    ex_data,             \* the argument data
    ex_result,           \* how the call ended: the exception or the value returned
    ex_collected,        \* the data list of a collect that consumed the snapshot
    \* ---- more_itertools.roundrobin over finite streams
    rr_streams,          \* the number of items every stream holds, in the order
                         \* the streams were given
    rr_taken,            \* the number of items taken from every stream
    rr_active,           \* the streams still asked, the next one first
    rr_out,              \* the items yielded so far: <<stream, place in it>>
    rr_pc                \* "run", and "done" once the multiplexer has ended

cpVars == <<cp_message_length, cp_collector_thread, cp_stop_event, cp_self_data,
            cp_pc, cp_data, cp_request_id, cp_start, cp_elapsed, cp_exc,
            cp_caller, cp_stops, cp_outcomes, cp_at_stop>>

dsVars == <<ds_containers, ds_num_containers, ds_collector_thread, ds_stop_event,
            ds_self_data, ds_pc, ds_data, ds_gen_pc, ds_tmp_conts,
            ds_rr, ds_turn, ds_ended, ds_exc, ds_caller, ds_stops, ds_set_at_start, ds_set_after_start,
            ds_uniform, ds_all_complete>>

raVars == <<ra_pc, ra_spinup_time, ra_client_perf_data, ra_docker_stats_data,
            ra_stopped_perf, ra_stopped_stats, ra_failed, ra_done, ra_stat_started,
            ra_stat_set, ra_load_started, ra_proc, ra_containers, ra_cont, ra_ifaces,
            ra_detected, ra_visited, ra_tc_codes, ra_kill_thread, ra_kills, ra_result>>

bgVars == <<bg_pc, bg_expected, bg_timeout, bg_start_time, bg_buffer, proc_alive,
            proc_stdout, proc_written, proc_marker_at>>

exVars == <<ex_pc, ex_data, ex_result, ex_collected>>

rrVars == <<rr_streams, rr_taken, rr_active, rr_out, rr_pc>>

vars == <<sut, clock, cpVars, dsVars, raVars, bgVars, exVars, rrVars>>

----------------------------------------------------------------------------
(* Helpers *)

Min(a, b) == IF a < b THEN a ELSE b

Max(a, b) == IF a < b THEN b ELSE a

(* What a finished stop_collecting call leaves in the caller's history:    *)
(* how it ended ("return" or the exception raised), the value it returned  *)
(* and the collector's dataset right after it ended.                       *)
Stopped(res, ret, data) == [res |-> res, ret |-> ret, data |-> data]

----------------------------------------------------------------------------
(* ClientPerfCollector                                                     *)

(* The behaviour exercises the ClientPerfCollector; the other units rest. *)
CP_unit == sut = "ClientPerfCollector" /\ UNCHANGED <<sut, dsVars, raVars, bgVars, exVars, rrVars>>

(* __init__ *)
CP_init ==
    /\ cp_message_length \in IF sut = "ClientPerfCollector" THEN 1..MaxMsgLen ELSE {1}
    /\ cp_collector_thread = "new"
    /\ cp_stop_event = FALSE
    /\ cp_self_data = <<>>
    /\ cp_pc = "while"
    /\ cp_data = <<>>
    /\ cp_request_id = 0
    /\ cp_start = 0
    /\ cp_elapsed = -1
    /\ cp_exc = ""
    /\ cp_caller = "idle"
    /\ cp_stops = <<>>
    /\ cp_outcomes = <<>>
    /\ cp_at_stop = -1

(* What requests.post() can do: answer after `elapsed` seconds, or raise.  *)
PostOutcomes == {"ok", "ReadTimeout", "ConnectTimeout", "ConnectionError"}

TimeoutKinds == {"ReadTimeout", "ConnectTimeout"}

(* except requests.ReadTimeout *)
CP_handles(exc) == exc = "ReadTimeout"

(* the dictionary appended per request *)
CP_observation(request_id, msg_length, elapsed, start) ==
    [id |-> request_id, msg_length |-> msg_length, latency |-> elapsed, start |-> start]

(* stop_event.is_set() guard at the head of stop_collecting *)
CP_neverStopped(ev) == FALSE

CP_alreadyStopped(ev) == ev

(* collector_thread.join() returns once the thread is no longer alive *)
CP_joined(thread) == thread = "exited"

(* collector_thread.join() raises RuntimeError for a thread never started *)
CP_joinWaitsForStart(thread) == FALSE

CP_joinRaises(thread) == thread = "new"

(* the loop condition of load_continuous *)
CP_loopIgnoresStop(ev) == TRUE

CP_loopContinues(ev) == ~ev

(* start_collecting: Thread.start(); starting a thread a second time       *)
(* raises RuntimeError and changes nothing                                 *)
CP_start_collecting ==
    /\ CP_unit
    /\ cp_caller = "idle"
    /\ cp_collector_thread' = IF cp_collector_thread = "new" THEN "running"
                                                              ELSE cp_collector_thread
    /\ UNCHANGED <<sut, clock, cp_message_length, cp_stop_event, cp_self_data, cp_pc,
                   cp_data, cp_request_id, cp_start, cp_elapsed, cp_exc, cp_caller,
                   cp_stops, cp_outcomes, cp_at_stop>>

(* stop_collecting up to the join: the is_set test, set(), and join()      *)
(* raising when the thread was never started                               *)
CP_stop_collecting_begin ==
    /\ CP_unit
    /\ cp_caller = "idle"
    /\ Len(cp_stops) < MaxStops
    /\ IF CP_alreadyStopped(cp_stop_event)
         THEN /\ cp_stops' = Append(cp_stops, Stopped("RuntimeError", <<>>, cp_self_data))
              /\ UNCHANGED <<cp_stop_event, cp_caller, cp_at_stop>>
         ELSE /\ cp_stop_event' = TRUE
              /\ cp_at_stop' = IF cp_at_stop = -1 THEN Len(cp_data) ELSE cp_at_stop
              /\ IF CP_joinRaises(cp_collector_thread)
                   THEN /\ cp_stops' = Append(cp_stops,
                                          Stopped("RuntimeError", <<>>, cp_self_data))
                        /\ UNCHANGED cp_caller
                   ELSE /\ cp_caller' = "join"
                        /\ UNCHANGED cp_stops
    /\ UNCHANGED <<sut, clock, cp_message_length, cp_collector_thread, cp_self_data, cp_pc,
                   cp_data, cp_request_id, cp_start, cp_elapsed, cp_exc, cp_outcomes>>

(* stop_collecting from the join on: returns self.data *)
CP_stop_collecting_return ==
    /\ CP_unit
    /\ cp_caller = "join"
    /\ CP_joined(cp_collector_thread)
    /\ cp_caller' = "idle"
    /\ cp_stops' = Append(cp_stops, Stopped("return", cp_self_data, cp_self_data))
    /\ UNCHANGED <<sut, clock, cp_message_length, cp_collector_thread, cp_stop_event,
                   cp_self_data, cp_pc, cp_data, cp_request_id, cp_start, cp_elapsed,
                   cp_exc, cp_outcomes, cp_at_stop>>

(* load_continuous: `while not self.stop_event.is_set()`.  The worker      *)
(* enters at most MaxReq iterations; beyond that it waits at the test.     *)
CP_load_test ==
    /\ CP_unit
    /\ cp_collector_thread = "running"
    /\ cp_pc = "while"
    /\ IF CP_loopContinues(cp_stop_event)
         THEN /\ cp_request_id < MaxReq
              /\ cp_pc' = "body"
         ELSE cp_pc' = "store"
    /\ UNCHANGED <<sut, clock, cp_message_length, cp_collector_thread, cp_stop_event,
                   cp_self_data, cp_data, cp_request_id, cp_start, cp_elapsed, cp_exc,
                   cp_caller, cp_stops, cp_outcomes, cp_at_stop>>

(* load_continuous: payload, start time, elapsed = -1, the request is sent *)
CP_load_issue ==
    /\ CP_unit
    /\ cp_collector_thread = "running"
    /\ cp_pc = "body"
    /\ cp_start' = clock
    /\ cp_elapsed' = -1
    /\ cp_pc' = "post"
    /\ UNCHANGED <<sut, clock, cp_message_length, cp_collector_thread, cp_stop_event,
                   cp_self_data, cp_data, cp_request_id, cp_exc, cp_caller, cp_stops,
                   cp_outcomes, cp_at_stop>>

(* load_continuous: requests.post() ends; the call took some time *)
CP_load_respond ==
    /\ CP_unit
    /\ cp_collector_thread = "running"
    /\ cp_pc = "post"
    /\ clock' \in {clock, Min(clock + 1, MaxClock)}
    /\ \E outcome \in PostOutcomes :
         /\ cp_outcomes' = Append(cp_outcomes, outcome)
         /\ IF outcome = "ok"
              THEN /\ \E e \in 0..MaxElapsed : cp_elapsed' = e
                   /\ cp_pc' = "append"
                   /\ UNCHANGED <<cp_collector_thread, cp_exc>>
              ELSE IF CP_handles(outcome)
                     THEN /\ cp_elapsed' = TIMEOUT_SEC
                          /\ cp_pc' = "append"
                          /\ UNCHANGED <<cp_collector_thread, cp_exc>>
                     ELSE /\ cp_exc' = outcome
                          /\ cp_collector_thread' = "exited"
                          /\ cp_pc' = "raised"
                          /\ UNCHANGED cp_elapsed
    /\ UNCHANGED <<sut, cp_message_length, cp_stop_event, cp_self_data, cp_data,
                   cp_request_id, cp_start, cp_caller, cp_stops, cp_at_stop>>

(* load_continuous: data.append({...}); request_id += 1 *)
CP_load_append ==
    /\ CP_unit
    /\ cp_collector_thread = "running"
    /\ cp_pc = "append"
    /\ cp_data' = Append(cp_data,
                         CP_observation(cp_request_id, cp_message_length, cp_elapsed, cp_start))
    /\ cp_request_id' = cp_request_id + 1
    /\ cp_pc' = "while"
    /\ UNCHANGED <<sut, clock, cp_message_length, cp_collector_thread, cp_stop_event,
                   cp_self_data, cp_start, cp_elapsed, cp_exc, cp_caller, cp_stops,
                   cp_outcomes, cp_at_stop>>

(* load_continuous: self.data = data, and the thread ends *)
CP_load_store ==
    /\ CP_unit
    /\ cp_collector_thread = "running"
    /\ cp_pc = "store"
    /\ cp_self_data' = cp_data
    /\ cp_collector_thread' = "exited"
    /\ cp_pc' = "done"
    /\ UNCHANGED <<sut, clock, cp_message_length, cp_stop_event, cp_data, cp_request_id,
                   cp_start, cp_elapsed, cp_exc, cp_caller, cp_stops, cp_outcomes,
                   cp_at_stop>>

CP_worker == CP_load_test \/ CP_load_issue \/ CP_load_respond \/ CP_load_append
             \/ CP_load_store


----------------------------------------------------------------------------
(* DockerStatCollector                                                     *)

(* The behaviour exercises the DockerStatCollector; the other units rest.  *)
DS_unit == sut = "DockerStatCollector" /\ UNCHANGED <<sut, cpVars, raVars, bgVars, exVars, rrVars>>

(* Optional values: None, or one value *)
None == {}

Some(x) == {x}

Get(o) == CHOOSE x \in o : TRUE

(* The list of the first n containers, as client.containers.list() or the  *)
(* caller of set_containers gives it.                                      *)
ContList(n) == [i \in 1..n |-> i]

(* __init__ *)
DS_init ==
    /\ ds_containers = None
    /\ ds_num_containers = 0
    /\ ds_collector_thread = "new"
    /\ ds_stop_event = FALSE
    /\ ds_self_data = <<>>
    /\ ds_pc = "while"
    /\ ds_data = <<>>
    /\ ds_gen_pc = "none"
    /\ ds_tmp_conts = <<>>
    /\ ds_rr = <<>>
    /\ ds_turn = 0
    /\ ds_ended = FALSE
    /\ ds_exc = ""
    /\ ds_caller = "idle"
    /\ ds_stops = <<>>
    /\ ds_set_at_start = FALSE
    /\ ds_set_after_start = FALSE
    /\ ds_uniform = TRUE
    /\ ds_all_complete = TRUE

----------------------------------------------------------------------------
(* extract                                                                 *)

(* An optional value drawn from S: a key of a dictionary that may be       *)
(* missing.                                                                *)
Optional(S) == {None} \cup {Some(x) : x \in S}

(* Values of the byte, memory and CPU counters of a snapshot *)
Counters == 0..MaxCount

(* The interfaces of a container *)
Ifaces == {"eth0", "eth1"}

(* The keys of data["networks"] in the order the dictionary lists them *)
IfaceOrders == {<<>>} \cup {<<i>> : i \in Ifaces}
               \cup {o \in Ifaces \X Ifaces : o[1] # o[2]}

(* data["networks"], when present: per interface its rx_bytes and tx_bytes *)
Networks ==
    UNION {{[k \in 1..Len(o) |-> [i_face |-> o[k], rx_bytes |-> c[k][1],
                                  tx_bytes |-> c[k][2]]] :
               c \in [1..Len(o) -> Counters \X Counters]} : o \in IfaceOrders}

(* The raw stats snapshots extract is called on.  "read" is the ISO-8601   *)
(* text of an instant, "name" the container's name behind a slash; the     *)
(* sections networks and memory_stats and the two precpu counters may be   *)
(* missing.                                                                *)
RawSnapshots ==
    [read : {[iso |-> 0]},
     name : {<<"/", 1>>},
     networks : Optional(Networks),
     memory_stats : Optional([usage : Counters, limit : Counters]),
     cpu_stats : [total_usage : Counters, system_cpu_usage : Counters],
     precpu_stats : [total_usage : Optional(Counters),
                     system_cpu_usage : Optional(Counters)]]

(* A raw stats snapshot of container c read at time t, with or without a   *)
(* networks section, as the streams of the DockerStatCollector give it.    *)
Snapshot(c, t, net) ==
    [read |-> [iso |-> t],
     name |-> <<"/", c>>,
     networks |-> IF net THEN Some(<<>>) ELSE None,
     memory_stats |-> Some([usage |-> 0, limit |-> 1]),
     cpu_stats |-> [total_usage |-> 0, system_cpu_usage |-> 1],
     precpu_stats |-> [total_usage |-> Some(0), system_cpu_usage |-> Some(0)]]

(* How a call ends: with a value returned, or with an exception *)
Ret(v) == [exc |-> "", ret |-> v]

Raised(e) == [exc |-> e, ret |-> None]

(* Python's a / b for b # 0, as the exact fraction *)
PyDiv(a, b) == [num |-> a, den |-> b]

(* datetime.datetime.fromisoformat(timestamp).timestamp() *)
fromisoformat_timestamp(timestamp) == timestamp.iso

(* data["name"][1:] *)
PyFrom1(name) == Tail(name)

(* what one interface adds to total_net_traffic *)
i_face_rx_only(i_face) == i_face.rx_bytes

i_face_traffic(i_face) == i_face.rx_bytes + i_face.tx_bytes

(* the loop over data["networks"].keys(), in the order of the dictionary *)
RECURSIVE total_net_traffic(_)
total_net_traffic(networks) ==
    IF networks = <<>> THEN 0
    ELSE total_net_traffic(SubSeq(networks, 1, Len(networks) - 1))
         + i_face_traffic(networks[Len(networks)])

(* extract behind the test for the networks section: the sum, the memory   *)
(* ratio (KeyError without the section, ZeroDivisionError for limit 0),    *)
(* the CPU ratio (0 when a precpu counter is missing: the KeyError is      *)
(* caught; ZeroDivisionError for equal system counters is not) and the     *)
(* record                                                                  *)
extract_record(data) ==
    IF data.memory_stats = None THEN Raised("KeyError")
    ELSE IF Get(data.memory_stats).limit = 0 THEN Raised("ZeroDivisionError")
    ELSE LET pre == data.precpu_stats
             baseline == pre.total_usage # None /\ pre.system_cpu_usage # None
             cont_diff == data.cpu_stats.total_usage - Get(pre.total_usage)
             sys_diff == data.cpu_stats.system_cpu_usage - Get(pre.system_cpu_usage)
         IN  IF baseline /\ sys_diff = 0 THEN Raised("ZeroDivisionError")
             ELSE Ret(Some(
                    [time |-> fromisoformat_timestamp(data.read),
                     container |-> PyFrom1(data.name),
                     total_net_traffic |-> total_net_traffic(Get(data.networks)),
                     memory_usage |-> PyDiv(Get(data.memory_stats).usage,
                                            Get(data.memory_stats).limit),
                     cpu_usage |-> IF baseline THEN PyDiv(cont_diff, sys_diff) ELSE 0]))

(* extract: None for a snapshot without a networks section *)
extract_unguarded(data) ==
    IF data.networks = None THEN extract_record([data EXCEPT !.networks = Some(<<>>)])
    ELSE extract_record(data)

extract(data) ==
    IF data.networks = None THEN Ret(None) ELSE extract_record(data)

(* Python's s[:stop] *)
PySliceTo(s, stop) ==
    LET e == IF stop < 0 THEN Max(stop + Len(s), 0) ELSE Min(stop, Len(s))
    IN  SubSeq(s, 1, e)

(* data[: -(len(data) % self.num_containers)], for num_containers > 0 *)
DS_truncateDropLast(data, n) == PySliceTo(data, -1)

DS_truncate(data, n) == PySliceTo(data, -(Len(data) % n))

(* stop_event.is_set() guard at the head of stop_collecting *)
DS_alreadyStopped(ev) == ev

(* collector_thread.join() returns once the thread is no longer alive *)
DS_joinNoWait(thread) == TRUE

DS_joined(thread) == thread = "exited"

(* collector_thread.join() raises RuntimeError for a thread never started *)
DS_joinRaises(thread) == thread = "new"

(* start_collecting: Thread.start(); starting a thread a second time       *)
(* raises RuntimeError and changes nothing                                 *)
DS_start_collecting ==
    /\ DS_unit
    /\ ds_caller = "idle"
    /\ IF ds_collector_thread = "new"
         THEN /\ ds_collector_thread' = "running"
              /\ ds_set_at_start' = (ds_containers # None)
         ELSE UNCHANGED <<ds_collector_thread, ds_set_at_start>>
    /\ UNCHANGED <<clock, ds_containers, ds_num_containers, ds_stop_event, ds_self_data,
                   ds_pc, ds_data, ds_gen_pc, ds_tmp_conts, ds_turn, ds_ended,
                   ds_rr, ds_exc, ds_caller, ds_stops, ds_set_after_start, ds_uniform,
                   ds_all_complete>>

(* set_containers(containers) *)
DS_set_containers ==
    /\ DS_unit
    /\ ds_caller = "idle"
    /\ \E n \in 0..MaxN :
         /\ ds_containers' = Some(ContList(n))
         /\ ds_num_containers' = n
    /\ ds_set_after_start' = (ds_set_after_start \/ ds_collector_thread # "new")
    /\ UNCHANGED <<clock, ds_collector_thread, ds_stop_event, ds_self_data, ds_pc, ds_data,
                   ds_gen_pc, ds_tmp_conts, ds_turn, ds_ended, ds_rr, ds_exc,
                   ds_caller, ds_stops, ds_set_at_start, ds_uniform, ds_all_complete>>

(* stop_collecting up to the join: the is_set test, set(), and join()      *)
(* raising when the thread was never started                               *)
DS_stop_collecting_begin ==
    /\ DS_unit
    /\ ds_caller = "idle"
    /\ Len(ds_stops) < MaxStops
    /\ IF DS_alreadyStopped(ds_stop_event)
         THEN /\ ds_stops' = Append(ds_stops, Stopped("RuntimeError", <<>>, ds_self_data))
              /\ UNCHANGED <<ds_stop_event, ds_caller>>
         ELSE /\ ds_stop_event' = TRUE
              /\ IF DS_joinRaises(ds_collector_thread)
                   THEN /\ ds_stops' = Append(ds_stops,
                                          Stopped("RuntimeError", <<>>, ds_self_data))
                        /\ UNCHANGED ds_caller
                   ELSE /\ ds_caller' = "join"
                        /\ UNCHANGED ds_stops
    /\ UNCHANGED <<clock, ds_containers, ds_num_containers, ds_collector_thread,
                   ds_self_data, ds_pc, ds_data, ds_gen_pc, ds_tmp_conts,
                   ds_turn, ds_ended, ds_rr, ds_exc, ds_set_at_start, ds_set_after_start,
                   ds_uniform, ds_all_complete>>

(* stop_collecting from the join on: returns self.data *)
DS_stop_collecting_return ==
    /\ DS_unit
    /\ ds_caller = "join"
    /\ DS_joined(ds_collector_thread)
    /\ ds_caller' = "idle"
    /\ ds_stops' = Append(ds_stops, Stopped("return", ds_self_data, ds_self_data))
    /\ UNCHANGED <<clock, ds_containers, ds_num_containers, ds_collector_thread,
                   ds_stop_event, ds_self_data, ds_pc, ds_data, ds_gen_pc,
                   ds_tmp_conts, ds_turn, ds_ended, ds_rr, ds_exc, ds_set_at_start,
                   ds_set_after_start, ds_uniform, ds_all_complete>>

(* The worker state every step of collect and of the generator leaves alone *)
DS_callerSide == <<ds_containers, ds_num_containers, ds_stop_event, ds_caller, ds_stops,
                   ds_set_at_start, ds_set_after_start>>

(* collect, the loop body up to the stop test: point = extract(data_point) *)
(* and `if point: data.append(point)`                                      *)
DS_consume(data, data_point) ==
    LET point == extract(data_point).ret
    IN  IF point # None THEN Append(data, Get(point)) ELSE data

(* A well-formed snapshot but for its memory limit, which is 0 *)
SnapshotZeroLimit(c, t) ==
    [Snapshot(c, t, TRUE) EXCEPT !.memory_stats = Some([usage |-> 0, limit |-> 0])]

(* The snapshots container c may give at time t *)
SnapshotsOf(c, t) == {Snapshot(c, t, TRUE), Snapshot(c, t, FALSE), SnapshotZeroLimit(c, t)}

(* collect, the loop body on one item of the generator: extract and the    *)
(* append.  Nothing in collect catches an exception of extract: it ends    *)
(* the thread before self.data is assigned, the generator left at its      *)
(* yield.                                                                  *)
DS_collect_item(data_point) ==
    IF extract(data_point).exc = ""
      THEN /\ ds_data' = DS_consume(ds_data, data_point)
           /\ ds_all_complete' = (ds_all_complete /\ data_point.networks # None)
           /\ ds_pc' = "check"
           /\ UNCHANGED <<ds_collector_thread, ds_exc>>
      ELSE /\ ds_exc' = extract(data_point).exc
           /\ ds_collector_thread' = "exited"
           /\ ds_pc' = "raised"
           /\ UNCHANGED <<ds_data, ds_all_complete>>

(* The behaviour exercises extract on one snapshot; the other units rest.  *)
EX_unit == sut = "extract"
           /\ UNCHANGED <<sut, clock, cpVars, dsVars, raVars, bgVars, rrVars>>

EX_init ==
    /\ ex_pc = "call"
    /\ IF sut = "extract"
         THEN ex_data \in RawSnapshots
         ELSE ex_data = Snapshot(1, 0, TRUE)
    /\ ex_result = Ret(None)
    /\ ex_collected = <<>>

(* point = extract(data_point); `if point: data.append(point)`, on an      *)
(* empty data list; an exception of extract leaves collect                 *)
EX_extract ==
    /\ EX_unit
    /\ ex_pc = "call"
    /\ ex_result' = extract(ex_data)
    /\ ex_collected' = IF extract(ex_data).exc = "" THEN DS_consume(<<>>, ex_data)
                                                     ELSE <<>>
    /\ ex_pc' = "done"
    /\ UNCHANGED ex_data

(* collect: `while not self.stop_event.is_set()`; entering the loop body   *)
(* creates a new stream_generator and asks it for its first item           *)
DS_collect_test ==
    /\ DS_unit
    /\ ds_collector_thread = "running"
    /\ ds_pc = "while"
    /\ IF ~ds_stop_event
         THEN /\ ds_pc' = "next"
              /\ ds_gen_pc' = "while"
         ELSE /\ ds_pc' = "truncate"
              /\ UNCHANGED ds_gen_pc
    /\ UNCHANGED <<clock, DS_callerSide, ds_collector_thread, ds_self_data, ds_data,
                   ds_tmp_conts, ds_rr, ds_exc, ds_turn, ds_ended, ds_uniform,
                   ds_all_complete>>

(* stream_generator: `while self.containers is None` *)
DS_gen_test ==
    /\ DS_unit
    /\ ds_collector_thread = "running"
    /\ ds_pc = "next"
    /\ ds_gen_pc = "while"
    /\ ds_gen_pc' = IF ds_containers = None THEN "list" ELSE "open"
    /\ UNCHANGED <<clock, DS_callerSide, ds_collector_thread, ds_self_data, ds_pc, ds_data,
                   ds_tmp_conts, ds_rr, ds_exc, ds_turn, ds_ended, ds_uniform,
                   ds_all_complete>>

(* stream_generator: tmp_conts = self.client.containers.list(), which      *)
(* returns a list (maybe empty) or raises APIError (caught: continue)      *)
DS_gen_list ==
    /\ DS_unit
    /\ ds_collector_thread = "running"
    /\ ds_pc = "next"
    /\ ds_gen_pc = "list"
    /\ \/ /\ ds_gen_pc' = "while"
          /\ UNCHANGED ds_tmp_conts
       \/ \E n \in 0..MaxN :
            /\ ds_tmp_conts' = ContList(n)
            /\ ds_gen_pc' = "for"
    /\ UNCHANGED <<clock, DS_callerSide, ds_collector_thread, ds_self_data, ds_pc, ds_data,
                   ds_rr, ds_exc, ds_turn, ds_ended, ds_uniform, ds_all_complete>>

(* stream_generator: `for x in tmp_conts: yield x.stats(stream=False)`,    *)
(* and collect's use of the item.  The call gives a snapshot or raises     *)
(* APIError (caught: continue).  The snapshot's "read" time is the clock,  *)
(* which every snapshot advances; at most MaxSnap snapshots are given.     *)
DS_gen_oneshot ==
    /\ DS_unit
    /\ ds_collector_thread = "running"
    /\ ds_pc = "next"
    /\ ds_gen_pc = "for"
    /\ IF ds_tmp_conts = <<>>
         THEN /\ ds_gen_pc' = "while"
              /\ UNCHANGED <<clock, ds_collector_thread, ds_pc, ds_data, ds_tmp_conts,
                             ds_exc, ds_all_complete>>
         ELSE \/ /\ ds_gen_pc' = "while"
                 /\ ds_tmp_conts' = <<>>
                 /\ UNCHANGED <<clock, ds_collector_thread, ds_pc, ds_data, ds_exc,
                                ds_all_complete>>
              \/ /\ clock < MaxSnap
                 /\ \E data_point \in SnapshotsOf(Head(ds_tmp_conts), clock) :
                      DS_collect_item(data_point)
                 /\ clock' = clock + 1
                 /\ ds_tmp_conts' = Tail(ds_tmp_conts)
                 /\ UNCHANGED ds_gen_pc
    /\ UNCHANGED <<DS_callerSide, ds_self_data, ds_rr, ds_turn, ds_ended, ds_uniform>>

(* stream_generator: streams = [cont.stats(decode=True, stream=True) ...], *)
(* one stream per container of self.containers                             *)
DS_gen_open ==
    /\ DS_unit
    /\ ds_collector_thread = "running"
    /\ ds_pc = "next"
    /\ ds_gen_pc = "open"
    /\ ds_rr' = ContList(Len(Get(ds_containers)))
    /\ ds_turn' = 0
    /\ ds_ended' = FALSE
    /\ ds_gen_pc' = "rr"
    /\ UNCHANGED <<clock, DS_callerSide, ds_collector_thread, ds_self_data, ds_pc, ds_data,
                   ds_tmp_conts, ds_exc, ds_uniform, ds_all_complete>>

(* The streams opened together held equally many snapshots so far: none    *)
(* ended in the middle of a round, and none gave a snapshot after another  *)
(* had ended.                                                              *)
DS_stillUniformAtEnd(uniform, turn) == uniform /\ turn = 0

DS_stillUniformAtYield(uniform, ended) == uniform /\ ~ended

(* more_itertools.roundrobin, the rotation of the streams still asked: a   *)
(* stream that gave an item goes to the end, one that has ended leaves.    *)
RR_stay(active) == active

RR_afterYield(active) == Append(Tail(active), Head(active))

RR_afterEnd(active) == Tail(active)

(* stream_generator: the loop over more_itertools.roundrobin of the        *)
(* streams, yielding each item, and collect's use of the item.  roundrobin *)
(* asks the active streams in turn; a stream that has ended leaves the     *)
(* rotation, and the generator ends with the last one.  Reading a stream   *)
(* may raise, which nothing catches.  A stream that holds no item and has  *)
(* not ended keeps the next() of roundrobin waiting: for a stream that     *)
(* stays so, the generator stays "blocked".                                *)
DS_gen_roundrobin ==
    /\ DS_unit
    /\ ds_collector_thread = "running"
    /\ ds_pc = "next"
    /\ ds_gen_pc = "rr"
    /\ IF ds_rr = <<>>
         THEN /\ ds_gen_pc' = "none"
              /\ ds_pc' = "while"
              /\ ds_turn' = 0
              /\ ds_ended' = FALSE
              /\ UNCHANGED <<clock, ds_collector_thread, ds_data, ds_rr, ds_exc,
                             ds_uniform, ds_all_complete>>
         ELSE \/ /\ ds_rr' = RR_afterEnd(ds_rr)
                 /\ ds_uniform' = DS_stillUniformAtEnd(ds_uniform, ds_turn)
                 /\ ds_ended' = TRUE
                 /\ UNCHANGED <<clock, ds_collector_thread, ds_pc, ds_data, ds_gen_pc,
                                ds_exc, ds_turn, ds_all_complete>>
              \/ /\ clock < MaxSnap
                 /\ \E data_point \in SnapshotsOf(Head(ds_rr), clock) :
                      DS_collect_item(data_point)
                 /\ clock' = clock + 1
                 /\ ds_rr' = RR_afterYield(ds_rr)
                 /\ ds_uniform' = DS_stillUniformAtYield(ds_uniform, ds_ended)
                 /\ ds_turn' = IF ds_ended THEN 0 ELSE (ds_turn + 1) % Len(ds_rr)
                 /\ UNCHANGED <<ds_gen_pc, ds_ended>>
              \/ /\ ds_exc' = "APIError"
                 /\ ds_collector_thread' = "exited"
                 /\ ds_pc' = "raised"
                 /\ ds_gen_pc' = "none"
                 /\ UNCHANGED <<clock, ds_data, ds_rr, ds_turn, ds_ended, ds_uniform,
                                ds_all_complete>>
              \/ /\ ds_gen_pc' = "blocked"
                 /\ UNCHANGED <<clock, ds_collector_thread, ds_pc, ds_data, ds_rr, ds_exc,
                                ds_turn, ds_ended, ds_uniform, ds_all_complete>>
    /\ UNCHANGED <<DS_callerSide, ds_self_data, ds_tmp_conts>>

(* collect: `if self.stop_event.is_set(): break`, which drops the          *)
(* generator; otherwise the for loop asks it for the next item             *)
DS_collect_check ==
    /\ DS_unit
    /\ ds_collector_thread = "running"
    /\ ds_pc = "check"
    /\ IF ds_stop_event
         THEN /\ ds_pc' = "while"
              /\ ds_gen_pc' = "none"
         ELSE /\ ds_pc' = "next"
              /\ UNCHANGED ds_gen_pc
    /\ UNCHANGED <<clock, DS_callerSide, ds_collector_thread, ds_self_data, ds_data,
                   ds_tmp_conts, ds_rr, ds_exc, ds_turn, ds_ended, ds_uniform,
                   ds_all_complete>>

(* collect: self.data = data[: -(len(data) % self.num_containers)], which  *)
(* raises ZeroDivisionError when num_containers is 0; the thread ends      *)
DS_collect_truncate ==
    /\ DS_unit
    /\ ds_collector_thread = "running"
    /\ ds_pc = "truncate"
    /\ IF ds_num_containers = 0
         THEN /\ ds_exc' = "ZeroDivisionError"
              /\ ds_pc' = "raised"
              /\ UNCHANGED ds_self_data
         ELSE /\ ds_self_data' = DS_truncate(ds_data, ds_num_containers)
              /\ ds_pc' = "done"
              /\ UNCHANGED ds_exc
    /\ ds_collector_thread' = "exited"
    /\ UNCHANGED <<clock, DS_callerSide, ds_data, ds_gen_pc, ds_tmp_conts, ds_rr,
                   ds_turn, ds_ended, ds_uniform, ds_all_complete>>

DS_worker == DS_collect_test \/ DS_gen_test \/ DS_gen_list \/ DS_gen_oneshot
             \/ DS_gen_open \/ DS_gen_roundrobin \/ DS_collect_check
             \/ DS_collect_truncate

----------------------------------------------------------------------------
(* more_itertools.roundrobin as stream_generator uses it, over             *)
(* streams that hold finitely many items.  Item k of stream i is <<i, k>>. *)

RR_unit == sut = "roundrobin"
           /\ UNCHANGED <<sut, clock, cpVars, dsVars, raVars, bgVars, exVars>>

RR_init ==
    /\ IF sut = "roundrobin"
         THEN \E n \in 0..MaxSources : rr_streams \in [1..n -> 0..MaxItems]
         ELSE rr_streams = <<>>
    /\ rr_taken = [i \in 1..Len(rr_streams) |-> 0]
    /\ rr_active = [i \in 1..Len(rr_streams) |-> i]
    /\ rr_out = <<>>
    /\ rr_pc = "run"

(* One next() of roundrobin on the stream whose turn it is: its next item  *)
(* is yielded, or it has ended and leaves the rotation; roundrobin ends    *)
(* when no stream is left.                                                 *)
RR_next ==
    /\ RR_unit
    /\ rr_pc = "run"
    /\ IF rr_active = <<>>
         THEN /\ rr_pc' = "done"
              /\ UNCHANGED <<rr_taken, rr_active, rr_out>>
         ELSE LET i == Head(rr_active)
              IN  IF rr_taken[i] < rr_streams[i]
                    THEN /\ rr_out' = Append(rr_out, <<i, rr_taken[i] + 1>>)
                         /\ rr_taken' = [rr_taken EXCEPT ![i] = @ + 1]
                         /\ rr_active' = RR_afterYield(rr_active)
                         /\ UNCHANGED rr_pc
                    ELSE /\ rr_active' = RR_afterEnd(rr_active)
                         /\ UNCHANGED <<rr_taken, rr_out, rr_pc>>
    /\ UNCHANGED rr_streams

----------------------------------------------------------------------------
(* run_analysis.  The two collectors are taken by what their methods do    *)
(* for a caller: start_collecting starts the worker, stop_collecting       *)
(* returns some dataset (or, for the DockerStatCollector, may never        *)
(* return).                                                                *)

RA_unit == sut = "run_analysis" /\ UNCHANGED <<sut, clock, cpVars, dsVars, bgVars, exVars, rrVars>>

(* The trim step is exercised within a whole run, and alone ("trim") on    *)
(* larger datasets.                                                        *)
RA_trimUnit == sut \in {"run_analysis", "trim"}
               /\ UNCHANGED <<sut, clock, cpVars, dsVars, bgVars, exVars, rrVars>>

(* Datasets of up to MaxLen records with timestamps 0..MaxTs, in any       *)
(* order: the id / container of a record is its place in the dataset.      *)
Timestamps == UNION {[1..n -> 0..MaxTs] : n \in 0..MaxLen}

(* The datasets stop_collecting returns within a whole run: up to MaxRec   *)
(* records, one per time unit from `first` on.                             *)
StopTimestamps(first) == {[i \in 1..n |-> first + i - 1] : n \in 0..MaxRec}

PerfData(ts) == [i \in 1..Len(ts) |-> [id |-> i - 1, start |-> ts[i]]]

StatsData(ts) == [i \in 1..Len(ts) |-> [container |-> i, time |-> ts[i]]]

(* The steps of run_analysis up to the trim step *)
RA_stepsToTrim == {"Clean", "Checkout", "Test", "Package", "Init", "Launch", "Shape",
                   "StopLoad", "StopStats"}

(* A whole run starts at its first statement.  The trim step alone starts  *)
(* at line 146 of a run in which no container was listed, with the         *)
(* datasets the two stop_collecting calls returned.                        *)
RA_init ==
    /\ IF sut = "trim"
         THEN /\ ra_pc = "trim"
              /\ ra_spinup_time \in 0..MaxSpinup
              /\ \E ts \in Timestamps : ra_client_perf_data = PerfData(ts)
              /\ \E ts \in Timestamps : ra_docker_stats_data = StatsData(ts)
              /\ ra_done = RA_stepsToTrim
              /\ ra_stat_started = TRUE
              /\ ra_stat_set = TRUE
              /\ ra_load_started = TRUE
              /\ ra_proc = "running"
              /\ ra_containers = Some(ContList(0))
         ELSE /\ IF sut = "run_analysis"
                   THEN /\ ra_pc = "clean"
                        /\ ra_spinup_time \in 0..MaxSpinup
                   ELSE /\ ra_pc = "off"
                        /\ ra_spinup_time = 0
              /\ ra_client_perf_data = <<>>
              /\ ra_docker_stats_data = <<>>
              /\ ra_done = {}
              /\ ra_stat_started = FALSE
              /\ ra_stat_set = FALSE
              /\ ra_load_started = FALSE
              /\ ra_proc = "none"
              /\ ra_containers = None
    /\ ra_stopped_perf = ra_client_perf_data
    /\ ra_stopped_stats = ra_docker_stats_data
    /\ ra_failed = ""
    /\ ra_cont = 0
    /\ ra_ifaces = 0
    /\ ra_detected = 0
    /\ ra_visited = 0
    /\ ra_tc_codes = <<>>
    /\ ra_kill_thread = "none"
    /\ ra_kills = <<>>
    /\ ra_result = None

(* Groups of the variables of run_analysis *)
raData == <<ra_client_perf_data, ra_docker_stats_data, ra_stopped_perf, ra_stopped_stats>>

raColl == <<ra_stat_started, ra_stat_set, ra_load_started, ra_proc, ra_containers>>

raShape == <<ra_cont, ra_ifaces, ra_detected, ra_visited, ra_tc_codes>>

raKill == <<ra_kill_thread, ra_kills, ra_result>>

(* What a command run by subprocess.check_output can do: exit with 0 and   *)
(* an output that holds the expected text ("found") or does not            *)
(* ("missing"), exit with another code ("nonzero"), or not end within the  *)
(* timeout ("timeout").                                                    *)
RunOutcomes == {"found", "missing", "nonzero", "timeout"}

(* run_cmd: how one pass of its loop ends.  TimeoutExpired is caught and   *)
(* the command run again; CalledProcessError is not caught.                *)
run_cmdUnchecked(out, expected) ==
    IF out = "timeout" THEN "retry" ELSE "return"

run_cmd(out, expected) ==
    IF out = "timeout" THEN "retry"
    ELSE IF out = "nonzero" THEN "CalledProcessError"
    ELSE IF expected /\ out = "missing" THEN "RuntimeError"
    ELSE "return"

(* The command itself succeeded: exit code 0 and, where a text is          *)
(* expected, the text in its output.                                       *)
CmdOk(out, expected) == out = "found" \/ (~expected /\ out = "missing")

(* One run_cmd call of run_analysis at position `at`, which goes on to     *)
(* `to`; `step` names the call.                                            *)
RA_run_cmd(at, expected, to, step) ==
    /\ RA_unit
    /\ ra_pc = at
    /\ \E out \in RunOutcomes :
         LET r == run_cmd(out, expected)
         IN  /\ ra_pc' = IF r = "retry" THEN at ELSE IF r = "return" THEN to ELSE r
             /\ ra_failed' = IF r \in {"retry", "return"} THEN ra_failed ELSE step
             /\ ra_done' = IF r = "return" /\ CmdOk(out, expected)
                             THEN ra_done \cup {step} ELSE ra_done
    /\ UNCHANGED <<ra_spinup_time, raData, raColl, raShape, raKill>>

(* docker compose down *)
RA_clean ==
    /\ ra_pc = "clean"
    /\ RA_run_cmd("clean", FALSE, "checkout", "Clean")

(* repository.git.checkout(branch_name), which raises when it fails *)
RA_checkout ==
    /\ RA_unit
    /\ ra_pc = "checkout"
    /\ \/ /\ ra_pc' = "test"
          /\ ra_done' = ra_done \cup {"Checkout"}
          /\ UNCHANGED ra_failed
       \/ /\ ra_pc' = "GitCommandError"
          /\ ra_failed' = "Checkout"
          /\ UNCHANGED ra_done
    /\ UNCHANGED <<ra_spinup_time, raData, raColl, raShape, raKill>>

(* mvn -B test and mvn -B package, both expecting BUILD SUCCESS *)
RA_build_test ==
    /\ ra_pc = "test"
    /\ RA_run_cmd("test", TRUE, "package", "Test")

RA_build_package ==
    /\ ra_pc = "package"
    /\ RA_run_cmd("package", TRUE, "docker", "Package")

(* docker.from_env() and the kill of every running container; a failing    *)
(* backend call raises                                                     *)
RA_docker ==
    /\ RA_unit
    /\ ra_pc = "docker"
    /\ \/ /\ ra_pc' = "stat_start"
          /\ ra_done' = ra_done \cup {"Init"}
          /\ UNCHANGED ra_failed
       \/ /\ ra_pc' = "DockerException"
          /\ ra_failed' = "Init"
          /\ UNCHANGED ra_done
    /\ UNCHANGED <<ra_spinup_time, raData, raColl, raShape, raKill>>

(* stat_collector = DockerStatCollector(client);                           *)
(* stat_collector.start_collecting()                                       *)
RA_stat_start ==
    /\ RA_unit
    /\ ra_pc = "stat_start"
    /\ ra_stat_started' = TRUE
    /\ ra_pc' = "launch"
    /\ UNCHANGED <<ra_spinup_time, raData, ra_failed, ra_done, ra_stat_set, ra_load_started,
                   ra_proc, ra_containers, raShape, raKill>>

(* docker_compose_proc = run_cmd_background(..., marker, timeout=360): the *)
(* process is launched; the call returns once the marker was read or       *)
(* raises RuntimeError (or never ends)                                     *)
RA_launch ==
    /\ RA_unit
    /\ ra_pc = "launch"
    /\ ra_proc' = "running"
    /\ \/ /\ ra_pc' = "list"
          /\ ra_done' = ra_done \cup {"Launch"}
          /\ UNCHANGED ra_failed
       \/ /\ ra_pc' = "RuntimeError"
          /\ ra_failed' = "Launch"
          /\ UNCHANGED ra_done
    /\ UNCHANGED <<ra_spinup_time, raData, ra_stat_started, ra_stat_set, ra_load_started,
                   ra_containers, raShape, raKill>>

(* containers = client.containers.list();                                  *)
(* stat_collector.set_containers(containers)                               *)
RA_list ==
    /\ RA_unit
    /\ ra_pc = "list"
    /\ \/ /\ \E n \in 0..MaxConts : ra_containers' = Some(ContList(n))
          /\ ra_stat_set' = TRUE
          /\ ra_pc' = "shape_cont"
          /\ UNCHANGED ra_failed
       \/ /\ ra_pc' = "APIError"
          /\ ra_failed' = "List"
          /\ UNCHANGED <<ra_containers, ra_stat_set>>
    /\ UNCHANGED <<ra_spinup_time, raData, ra_done, ra_stat_started, ra_load_started,
                   ra_proc, raShape, raKill>>

(* the test of the exit code of a tc command *)
RA_tcIgnored(exit_code) == TRUE

RA_tcOk(exit_code) == exit_code = 0

(* Exit codes of a command run in a container *)
ExitCodes == {0, 1}

(* `for cont in containers`: at the end of the list the shaping is done;   *)
(* otherwise `ip link show` is run in the container (a failing backend     *)
(* call raises) and re.findall gives the interfaces of its output          *)
RA_shape_cont ==
    /\ RA_unit
    /\ ra_pc = "shape_cont"
    /\ IF ra_cont = Len(Get(ra_containers))
         THEN /\ ra_pc' = "load_start"
              /\ ra_done' = IF \A i \in 1..Len(ra_tc_codes) : ra_tc_codes[i] = 0
                              THEN ra_done \cup {"Shape"} ELSE ra_done
              /\ ra_cont' = 0
              /\ UNCHANGED <<ra_failed, ra_ifaces, ra_detected, ra_visited>>
         ELSE \/ /\ \E k \in 0..MaxIfaces :
                      /\ ra_ifaces' = k
                      /\ ra_detected' = ra_detected + k
                 /\ ra_visited' = ra_visited + 1
                 /\ ra_pc' = "shape_iface"
                 /\ UNCHANGED <<ra_failed, ra_done, ra_cont>>
              \/ /\ ra_pc' = "APIError"
                 /\ ra_failed' = "Shape"
                 /\ UNCHANGED <<ra_done, ra_cont, ra_ifaces, ra_detected, ra_visited>>
    /\ UNCHANGED <<ra_spinup_time, raData, raColl, ra_tc_codes, raKill>>

(* `for iface in re.findall(...)`: the tc command is run for the next      *)
(* interface; an exit code other than 0 raises RuntimeError                *)
RA_shape_iface ==
    /\ RA_unit
    /\ ra_pc = "shape_iface"
    /\ IF ra_ifaces = 0
         THEN /\ ra_cont' = ra_cont + 1
              /\ ra_pc' = "shape_cont"
              /\ UNCHANGED <<ra_failed, ra_ifaces, ra_tc_codes>>
         ELSE \E exit_code \in ExitCodes :
                /\ ra_tc_codes' = Append(ra_tc_codes, exit_code)
                /\ IF RA_tcOk(exit_code)
                     THEN /\ ra_ifaces' = ra_ifaces - 1
                          /\ UNCHANGED <<ra_pc, ra_failed>>
                     ELSE /\ ra_pc' = "RuntimeError"
                          /\ ra_failed' = "Shape"
                          /\ UNCHANGED ra_ifaces
                /\ UNCHANGED ra_cont
    /\ UNCHANGED <<ra_spinup_time, raData, ra_done, raColl, ra_detected, ra_visited, raKill>>

(* load_collector = ClientPerfCollector(...);                              *)
(* load_collector.start_collecting()                                       *)
RA_load_start ==
    /\ RA_unit
    /\ ra_pc = "load_start"
    /\ ra_load_started' = TRUE
    /\ ra_pc' = "sleep"
    /\ UNCHANGED <<ra_spinup_time, raData, ra_failed, ra_done, ra_stat_started, ra_stat_set,
                   ra_proc, ra_containers, raShape, raKill>>

(* time.sleep(total_time) *)
RA_sleep ==
    /\ RA_unit
    /\ ra_pc = "sleep"
    /\ ra_pc' = "stop_load"
    /\ UNCHANGED <<ra_spinup_time, raData, ra_failed, ra_done, raColl, raShape, raKill>>

(* client_perf_data = load_collector.stop_collecting(); the load collector *)
(* was started after the stat collector, its records begin later           *)
RA_stop_load ==
    /\ RA_unit
    /\ ra_pc = "stop_load"
    /\ \E ts \in StopTimestamps(1) :
         /\ ra_client_perf_data' = PerfData(ts)
         /\ ra_stopped_perf' = PerfData(ts)
    /\ ra_done' = ra_done \cup {"StopLoad"}
    /\ ra_pc' = "stop_stats"
    /\ UNCHANGED <<ra_spinup_time, ra_docker_stats_data, ra_stopped_stats, ra_failed,
                   raColl, raShape, raKill>>

(* docker_stats_data = stat_collector.stop_collecting() *)
RA_stop_stats ==
    /\ RA_unit
    /\ ra_pc = "stop_stats"
    /\ \E ts \in StopTimestamps(0) :
         /\ ra_docker_stats_data' = StatsData(ts)
         /\ ra_stopped_stats' = StatsData(ts)
    /\ ra_done' = ra_done \cup {"StopStats"}
    /\ ra_pc' = "trim"
    /\ UNCHANGED <<ra_spinup_time, ra_client_perf_data, ra_stopped_perf, ra_failed,
                   raColl, raShape, raKill>>

(* Python's min() of a non-empty sequence of numbers *)
PyMin(s) == CHOOSE m \in {s[i] : i \in 1..Len(s)} : \A i \in 1..Len(s) : m <= s[i]

(* Python's list(filter(keep, s)); keep[i] is the value of keep(s[i]) *)
PyFilter(keep, s) ==
    LET F[i \in 0..Len(s)] ==
          IF i = 0 THEN <<>>
          ELSE IF keep[i] THEN Append(F[i - 1], s[i]) ELSE F[i - 1]
    IN  F[Len(s)]

(* the filter condition: x > spinup_time + min_time_measurement *)
RA_keepsFrom(t, spinup_time, min_time_measurement) == t >= spinup_time + min_time_measurement

RA_keeps(t, spinup_time, min_time_measurement) == t > spinup_time + min_time_measurement

(* min_time_measurement = min(min_time_perf, min_time_stats) *)
RA_min_time_measurement(client_perf_data, docker_stats_data) ==
    LET min_time_perf == PyMin([i \in 1..Len(client_perf_data) |-> client_perf_data[i].start])
        min_time_stats == PyMin([i \in 1..Len(docker_stats_data) |-> docker_stats_data[i].time])
    IN  Min(min_time_perf, min_time_stats)

(* The trim step; min() of an empty dataset raises ValueError *)
RA_trim ==
    /\ RA_trimUnit
    /\ ra_pc = "trim"
    /\ IF ra_client_perf_data = <<>> \/ ra_docker_stats_data = <<>>
         THEN /\ ra_pc' = "ValueError"
              /\ ra_failed' = "Trim"
              /\ UNCHANGED <<ra_client_perf_data, ra_docker_stats_data, ra_done>>
         ELSE LET m == RA_min_time_measurement(ra_client_perf_data, ra_docker_stats_data)
              IN  /\ ra_client_perf_data' =
                        PyFilter([i \in 1..Len(ra_client_perf_data) |->
                                    RA_keeps(ra_client_perf_data[i].start, ra_spinup_time, m)],
                                 ra_client_perf_data)
                  /\ ra_docker_stats_data' =
                        PyFilter([i \in 1..Len(ra_docker_stats_data) |->
                                    RA_keeps(ra_docker_stats_data[i].time, ra_spinup_time, m)],
                                 ra_docker_stats_data)
                  /\ ra_pc' = "trimmed"
                  /\ ra_done' = ra_done \cup {"Trim"}
                  /\ UNCHANGED ra_failed
    /\ UNCHANGED <<ra_spinup_time, ra_stopped_perf, ra_stopped_stats, raColl, raShape, raKill>>

(* docker_compose_proc.kill(); docker_compose_proc.wait() *)
RA_teardown_proc ==
    /\ RA_unit
    /\ ra_pc = "trimmed"
    /\ ra_proc' = "killed"
    /\ ra_pc' = "kill"
    /\ UNCHANGED <<ra_spinup_time, raData, ra_failed, ra_done, ra_stat_started, ra_stat_set,
                   ra_load_started, ra_containers, raShape, raKill>>

(* What cont.kill() does in its thread within the 3 seconds of the join:   *)
(* it returns ("killed"), it raises ("raised", which ends the thread), or  *)
(* it is still running ("alive").                                          *)
KillOutcomes == {"killed", "raised", "alive"}

(* t.join(3) returns after 3 seconds at the latest *)
RA_joinWaits(thread) == thread # "alive"

RA_joinReturns(thread) == TRUE

(* `for cont in containers`: t = Thread(target=cont.kill, daemon=True);    *)
(* t.start()                                                               *)
RA_kill_start ==
    /\ RA_unit
    /\ ra_pc = "kill"
    /\ ra_cont < Len(Get(ra_containers))
    /\ \E o \in KillOutcomes : ra_kill_thread' = o
    /\ ra_pc' = "kill_join"
    /\ UNCHANGED <<ra_spinup_time, raData, ra_failed, ra_done, raColl, raShape, ra_kills,
                   ra_result>>

(* t.join(3); `if t.is_alive()` the container is reported and the loop     *)
(* goes on                                                                 *)
RA_kill_join ==
    /\ RA_unit
    /\ ra_pc = "kill_join"
    /\ RA_joinReturns(ra_kill_thread)
    /\ ra_kills' = Append(ra_kills, [outcome |-> ra_kill_thread,
                                     reported |-> ra_kill_thread = "alive"])
    /\ ra_kill_thread' = "none"
    /\ ra_cont' = ra_cont + 1
    /\ ra_pc' = "kill"
    /\ UNCHANGED <<ra_spinup_time, raData, ra_failed, ra_done, raColl, ra_ifaces, ra_detected,
                   ra_visited, ra_tc_codes, ra_result>>

(* return {"docker_stats": docker_stats_data, "client_perf": client_perf_data} *)
RA_return ==
    /\ RA_unit
    /\ ra_pc = "kill"
    /\ ra_cont = Len(Get(ra_containers))
    /\ ra_result' = Some([docker_stats |-> ra_docker_stats_data,
                          client_perf |-> ra_client_perf_data])
    /\ ra_pc' = "return"
    /\ UNCHANGED <<ra_spinup_time, raData, ra_failed, ra_done, raColl, raShape,
                   ra_kill_thread, ra_kills>>

RA_next ==
    \/ RA_clean
    \/ RA_checkout
    \/ RA_build_test
    \/ RA_build_package
    \/ RA_docker
    \/ RA_stat_start
    \/ RA_launch
    \/ RA_list
    \/ RA_shape_cont
    \/ RA_shape_iface
    \/ RA_load_start
    \/ RA_sleep
    \/ RA_stop_load
    \/ RA_stop_stats
    \/ RA_trim
    \/ RA_teardown_proc
    \/ RA_kill_start
    \/ RA_kill_join
    \/ RA_return

----------------------------------------------------------------------------
(* run_cmd_background and the process it launches                          *)

BG_unit == sut = "run_cmd_background" /\ UNCHANGED <<sut, cpVars, dsVars, raVars, exVars, rrVars>>

BG_init ==
    /\ bg_pc = "call"
    /\ IF sut = "run_cmd_background"
         THEN /\ bg_expected \in BOOLEAN
              /\ bg_timeout \in 0..MaxTimeout
         ELSE /\ bg_expected = FALSE
              /\ bg_timeout = 0
    /\ bg_start_time = 0
    /\ bg_buffer = <<>>
    /\ proc_alive = FALSE
    /\ proc_stdout = <<>>
    /\ proc_written = 0
    /\ proc_marker_at = -1

(* A line of output either holds the expected marker or does not *)
Lines == {"marker", "other"}

(* `expected in line`; at end of file readline returns an empty line *)
BG_found(line) == line = "marker"

(* time.time() - start_time > timeout *)
BG_timedOut(now, start_time, timeout) == now - start_time > timeout

(* Popen; without `expected` the call returns at once, otherwise           *)
(* buffer = b"" and start_time = time.time()                               *)
BG_popen ==
    /\ BG_unit
    /\ bg_pc = "call"
    /\ proc_alive' = TRUE
    /\ IF bg_expected
         THEN /\ bg_start_time' = clock
              /\ bg_pc' = "check"
         ELSE /\ bg_pc' = "return"
              /\ UNCHANGED bg_start_time
    /\ UNCHANGED <<clock, bg_expected, bg_timeout, bg_buffer, proc_stdout, proc_written,
                   proc_marker_at>>

(* the timeout test at the head of the loop *)
BG_check ==
    /\ BG_unit
    /\ bg_pc = "check"
    /\ bg_pc' = IF BG_timedOut(clock, bg_start_time, bg_timeout) THEN "RuntimeError"
                                                                  ELSE "readline"
    /\ UNCHANGED <<clock, bg_expected, bg_timeout, bg_start_time, bg_buffer, proc_alive,
                   proc_stdout, proc_written, proc_marker_at>>

(* line = proc.stdout.readline(), which blocks until the process has       *)
(* written a line or closed its output; then buffer += line and the test   *)
(* for the marker                                                          *)
BG_readline ==
    /\ BG_unit
    /\ bg_pc = "readline"
    /\ proc_stdout # <<>> \/ ~proc_alive
    /\ LET line == IF proc_stdout # <<>> THEN Head(proc_stdout) ELSE ""
       IN  /\ bg_buffer' = IF line = "" THEN bg_buffer ELSE Append(bg_buffer, line)
           /\ proc_stdout' = IF proc_stdout # <<>> THEN Tail(proc_stdout) ELSE proc_stdout
           /\ bg_pc' = IF BG_found(line) THEN "return" ELSE "check"
    /\ UNCHANGED <<clock, bg_expected, bg_timeout, bg_start_time, proc_alive, proc_written,
                   proc_marker_at>>

(* The launched process writes a line, *)
Proc_write ==
    /\ BG_unit
    /\ bg_pc \in {"check", "readline"}
    /\ proc_alive
    /\ proc_written < MaxLines
    /\ \E line \in Lines :
         /\ proc_stdout' = Append(proc_stdout, line)
         /\ proc_marker_at' = IF line = "marker" /\ proc_marker_at = -1 THEN clock
                                                                       ELSE proc_marker_at
    /\ proc_written' = proc_written + 1
    /\ UNCHANGED <<clock, bg_pc, bg_expected, bg_timeout, bg_start_time, bg_buffer,
                   proc_alive>>

(* or exits, *)
Proc_exit ==
    /\ BG_unit
    /\ bg_pc \in {"check", "readline"}
    /\ proc_alive
    /\ proc_alive' = FALSE
    /\ UNCHANGED <<clock, bg_pc, bg_expected, bg_timeout, bg_start_time, bg_buffer,
                   proc_stdout, proc_written, proc_marker_at>>

(* while time passes.  The clock stops once the deadline has passed.       *)
Tick ==
    /\ BG_unit
    /\ bg_pc \in {"check", "readline"}
    /\ clock <= bg_start_time + bg_timeout
    /\ clock' = clock + 1
    /\ UNCHANGED bgVars

----------------------------------------------------------------------------
Units == {"ClientPerfCollector", "DockerStatCollector", "run_analysis", "trim",
          "run_cmd_background", "extract", "roundrobin"}

Init ==
    /\ sut \in Units
    /\ clock = 0
    /\ CP_init
    /\ DS_init
    /\ RA_init
    /\ BG_init
    /\ EX_init
    /\ RR_init

CP_next ==
    \/ CP_start_collecting
    \/ CP_stop_collecting_begin
    \/ CP_stop_collecting_return
    \/ CP_load_test
    \/ CP_load_issue
    \/ CP_load_respond
    \/ CP_load_append
    \/ CP_load_store

DS_next ==
    \/ DS_start_collecting
    \/ DS_set_containers
    \/ DS_stop_collecting_begin
    \/ DS_stop_collecting_return
    \/ DS_collect_test
    \/ DS_gen_test
    \/ DS_gen_list
    \/ DS_gen_oneshot
    \/ DS_gen_open
    \/ DS_gen_roundrobin
    \/ DS_collect_check
    \/ DS_collect_truncate

BG_next ==
    \/ BG_popen
    \/ BG_check
    \/ BG_readline
    \/ Proc_write
    \/ Proc_exit
    \/ Tick

Next == CP_next \/ DS_next \/ RA_next \/ BG_next \/ EX_extract \/ RR_next

Spec == Init /\ [][Next]_vars

CP_only == Init /\ sut = "ClientPerfCollector"

DS_only == Init /\ sut = "DockerStatCollector"

BG_only == Init /\ sut = "run_cmd_background"

RA_only == Init /\ sut = "run_analysis"

(* The ClientPerfCollector alone.  Its worker thread is scheduled as long  *)
(* as it can run, every request ends (it is answered, or it times out      *)
(* after TIMEOUT_SEC), and a join returns once the thread has ended.       *)
LiveCP ==
    /\ CP_only
    /\ [][CP_next]_vars
    /\ WF_vars(CP_worker)
    /\ WF_vars(CP_stop_collecting_return)

(* The DockerStatCollector alone.  Its worker thread is scheduled as long  *)
(* as it can run, every backend call returns (with whatever result), and   *)
(* a join returns once the thread has ended.                               *)
LiveDS ==
    /\ DS_only
    /\ [][DS_next]_vars
    /\ WF_vars(DS_worker)
    /\ WF_vars(DS_stop_collecting_return)

(* run_cmd_background alone.  The calling thread is scheduled as long as   *)
(* it can run and time passes; the launched process owes nothing.          *)
LiveBG ==
    /\ BG_only
    /\ [][BG_next]_vars
    /\ WF_vars(BG_popen)
    /\ WF_vars(BG_check)
    /\ WF_vars(BG_readline)
    /\ WF_vars(Tick)

(* run_analysis alone, from the trim step on.  The calling thread is       *)
(* scheduled as long as it can run; kill() and wait() of the launched      *)
(* process, starting a thread and a join that may return do return.        *)
LiveRA ==
    /\ RA_only
    /\ [][RA_next]_vars
    /\ WF_vars(RA_teardown_proc)
    /\ WF_vars(RA_kill_start)
    /\ WF_vars(RA_kill_join)
    /\ WF_vars(RA_return)

----------------------------------------------------------------------------
(* Properties                                                              *)

(* Some call of the history returned, and the dataset it returned *)
Returned(stops) == {i \in 1..Len(stops) : stops[i].res = "return"}

(* Every stop_collecting call that follows one that returned ended with    *)
(* RuntimeError and left the dataset equal to the one returned first.      *)
Rejects(stops) ==
    \A i, j \in 1..Len(stops) :
        i < j /\ stops[i].res = "return"
            => stops[j].res = "RuntimeError" /\ stops[j].data = stops[i].ret

\* C1: for both collectors, a second stop_collecting() after a first one has
\* returned is rejected with RuntimeError, and self.data after the rejected
\* call is the dataset the first call returned.
C1_SecondStopRejected == Rejects(cp_stops) /\ Rejects(ds_stops)

\* C1 witness: a DockerStatCollector whose first stop returned a non-empty
\* dataset and whose second stop has been rejected.
C1_Witness ==
    /\ Len(ds_stops) = 2
    /\ ds_stops[1].res = "return"
    /\ ds_stops[1].ret # <<>>
    /\ ds_stops[2].res = "RuntimeError"

\* C1, the ClientPerfCollector's case of the same: reachable as well.
C1_WitnessClient ==
    /\ Len(cp_stops) = 2
    /\ cp_stops[1].res = "return"
    /\ cp_stops[1].ret # <<>>
    /\ cp_stops[2].res = "RuntimeError"

\* C2: for both collectors, only the worker thread writes self.data (in its
\* last step), stop_collecting() returns (reads self.data) only once the
\* worker has exited, and once a stop_collecting() has returned self.data
\* never changes again.
C2_WorkerWritesStopReadsAfter ==
    [][ /\ cp_self_data' # cp_self_data
            => cp_collector_thread = "running" /\ cp_collector_thread' = "exited"
        /\ Len(cp_stops') > Len(cp_stops) /\ cp_stops'[Len(cp_stops')].res = "return"
            => cp_collector_thread = "exited"
        /\ Returned(cp_stops) # {} => cp_self_data' = cp_self_data
        /\ ds_self_data' # ds_self_data
            => ds_collector_thread = "running" /\ ds_collector_thread' = "exited"
        /\ Len(ds_stops') > Len(ds_stops) /\ ds_stops'[Len(ds_stops')].res = "return"
            => ds_collector_thread = "exited"
        /\ Returned(ds_stops) # {} => ds_self_data' = ds_self_data ]_vars

\* C2 witness: a ClientPerfCollector whose stop has returned the non-empty
\* dataset its worker stored, with the worker exited.
C2_Witness ==
    /\ Returned(cp_stops) # {}
    /\ cp_collector_thread = "exited"
    /\ cp_self_data # <<>>
    /\ cp_self_data = cp_data

\* C2, the DockerStatCollector's case of the same: reachable as well.
C2_WitnessDocker ==
    /\ Returned(ds_stops) # {}
    /\ ds_collector_thread = "exited"
    /\ ds_self_data # <<>>

(* The containers were set before start_collecting and not set again *)
DS_fixed == ds_set_at_start /\ ~ds_set_after_start

\* C3: with N >= 1 containers fixed before the start, the dataset that
\* stop_collecting() returns is the sequence D the worker accumulated without
\* its last (len(D) mod N) records; it is D when len(D) is divisible by N.
C3_OnlyPartialRoundRemoved ==
    \A i \in Returned(ds_stops) :
        DS_fixed /\ ds_num_containers >= 1 /\ ds_pc = "done"
            => ds_stops[i].ret =
                 SubSeq(ds_data, 1, Len(ds_data) - (Len(ds_data) % ds_num_containers))

(* How often container c occurs in a dataset *)
Occurrences(data, c) == Cardinality({k \in 1..Len(data) : data[k].container = <<c>>})

\* C4: with N >= 1 containers fixed before the start, streams that hold
\* equally many snapshots and only complete snapshots, the dataset that
\* stop_collecting() returns has a length divisible by N and holds every
\* container equally often.
C4_Rectangular ==
    \A i \in Returned(ds_stops) :
        DS_fixed /\ ds_num_containers >= 1 /\ ds_uniform /\ ds_all_complete
            => LET ret == ds_stops[i].ret
               IN  /\ Len(ret) % ds_num_containers = 0
                   /\ \A c, d \in 1..ds_num_containers :
                          Occurrences(ret, c) = Occurrences(ret, d)

\* C4 witness: two containers, a non-empty dataset returned under the
\* claim's conditions.
C4_Witness ==
    /\ DS_fixed /\ ds_num_containers = 2 /\ ds_uniform /\ ds_all_complete
    /\ \E i \in Returned(ds_stops) : ds_stops[i].ret # <<>>

\* C5: once stop_collecting() is called on a started DockerStatCollector
\* (the caller waits in join), the worker exits and stop_collecting()
\* returns, whether the containers are set or not, unless the read of a
\* stream never returns.
C5_StopReturns == (ds_caller = "join") ~> (ds_caller = "idle" \/ ds_gen_pc = "blocked")

\* C6 as stated: after stop_collecting() has set the stop flag, the
\* ClientPerfCollector's worker starts (sends) no new request.
C6_NoRequestStartedAfterStop ==
    [][cp_stop_event => ~(cp_pc = "body" /\ cp_pc' = "post")]_vars

\* C6 as amended: after stop_collecting() has set the stop flag the worker
\* enters no new loop iteration; at most one observation, that of the
\* iteration it was in, is recorded after the flag was set; and the worker
\* exits and the waiting stop_collecting() returns.
C6_StopAtIterationBoundary ==
    /\ [][cp_stop_event => ~(cp_pc = "while" /\ cp_pc' = "body")]_vars
    /\ [](cp_at_stop >= 0 => Len(cp_data) <= cp_at_stop + 1)
    /\ (cp_caller = "join") ~> (cp_caller = "idle" /\ cp_collector_thread = "exited")

\* C6 witness: stop_collecting() has returned, and the request that was in
\* flight when the flag was set has been recorded.
C6_Witness ==
    /\ Returned(cp_stops) # {}
    /\ cp_at_stop >= 0
    /\ Len(cp_self_data) = cp_at_stop + 1

\* C7: every request of load_continuous that times out, of whatever timeout
\* kind, yields an observation with latency TIMEOUT_SEC, and no timeout
\* leaves the worker as an exception.
C7_TimeoutsRecorded ==
    /\ cp_exc \notin TimeoutKinds
    /\ \A k \in 1..Len(cp_data) :
           cp_outcomes[k] \in TimeoutKinds => cp_data[k].latency = TIMEOUT_SEC

\* C8: the dataset ClientPerfCollector.stop_collecting() returns holds one
\* observation per request the worker issued, the k-th with id k (from 0)
\* and the configured msg_length.
C8_OneObservationPerRequest ==
    \A i \in Returned(cp_stops) :
        LET ret == cp_stops[i].ret
        IN  /\ Len(ret) = Len(cp_outcomes)
            /\ \A k \in 1..Len(ret) :
                   ret[k].id = k - 1 /\ ret[k].msg_length = cp_message_length

(* The k-th smallest member of a finite set of numbers *)
RECURSIVE KthSmallest(_, _)
KthSmallest(S, k) ==
    LET m == CHOOSE x \in S : \A y \in S : x <= y
    IN  IF k = 1 THEN m ELSE KthSmallest(S \ {m}, k - 1)

(* `kept` holds exactly the records of `from` whose timestamp (stamp[i]   *)
(* for from[i]) passes `bound`, in their order in `from`.                  *)
KeepsExactly(kept, from, stamp, bound) ==
    LET I == {i \in 1..Len(from) : stamp[i] > bound}
    IN  /\ Len(kept) = Cardinality(I)
        /\ \A k \in 1..Len(kept) : kept[k] = from[KthSmallest(I, k)]

\* C9: after the trim step, with t0 the least timestamp of both stopped
\* datasets and s the spin-up time, client_perf and docker_stats hold
\* exactly the records with timestamp > t0 + s, in their original order.
C9_TrimKeepsLaterRecords ==
    ra_pc = "trimmed" =>
        LET stamps == {ra_stopped_perf[i].start : i \in 1..Len(ra_stopped_perf)}
                      \cup {ra_stopped_stats[i].time : i \in 1..Len(ra_stopped_stats)}
            t0 == CHOOSE t \in stamps : \A u \in stamps : t <= u
        IN  /\ KeepsExactly(ra_client_perf_data, ra_stopped_perf,
                            [i \in 1..Len(ra_stopped_perf) |-> ra_stopped_perf[i].start],
                            t0 + ra_spinup_time)
            /\ KeepsExactly(ra_docker_stats_data, ra_stopped_stats,
                            [i \in 1..Len(ra_stopped_stats) |-> ra_stopped_stats[i].time],
                            t0 + ra_spinup_time)

\* C9 witness: a trim that dropped a record of each dataset and kept a
\* record of each.
C9_Witness ==
    /\ ra_pc = "trimmed"
    /\ ra_client_perf_data # <<>> /\ Len(ra_client_perf_data) < Len(ra_stopped_perf)
    /\ ra_docker_stats_data # <<>> /\ Len(ra_docker_stats_data) < Len(ra_stopped_stats)

\* C10: the readiness wait of run_cmd_background, called with a marker,
\* always ends: it returns or raises the timeout failure.
C10_ReadinessWaitEnds == (bg_pc = "check") ~> (bg_pc \in {"return", "RuntimeError"})

\* C11: run_cmd_background, called with a marker as run_analysis calls it,
\* returns (so that run_analysis goes on to shaping) only if the process
\* wrote the marker within `timeout` of the launch.
C11_MarkerInTime ==
    (bg_expected /\ bg_pc = "return") =>
        /\ proc_marker_at # -1
        /\ ~BG_timedOut(proc_marker_at, bg_start_time, bg_timeout)

(* Positions of run_analysis from the Collect step on *)
RA_fromCollect == {"load_start", "sleep", "stop_load", "stop_stats", "trim", "trimmed",
                   "ValueError", "kill", "kill_join", "return"}

\* C12: run_analysis reaches the Collect step only if a shaping command was
\* run for every detected interface of every listed container and each
\* returned exit code 0; the first non-zero exit code ends the run with
\* RuntimeError, no further command is run and no result is returned.
C12_ShapeAllOrAbort ==
    /\ (ra_pc \in RA_fromCollect \/ ra_load_started) =>
          /\ ra_visited = Len(Get(ra_containers))
          /\ Len(ra_tc_codes) = ra_detected
          /\ \A i \in 1..Len(ra_tc_codes) : ra_tc_codes[i] = 0
    /\ \A i \in 1..Len(ra_tc_codes) :
          ra_tc_codes[i] # 0 =>
              /\ i = Len(ra_tc_codes)
              /\ ra_pc = "RuntimeError"
              /\ ra_failed = "Shape"
              /\ ra_result = None

\* C12 witness: the Collect step reached after a shaping command was run
\* and returned 0.
C12_Witness == ra_pc = "sleep" /\ ra_load_started /\ ra_tc_codes # <<>>

\* C12 witness of the abort: a shaping command returned a non-zero code.
C12_WitnessAbort == \E i \in 1..Len(ra_tc_codes) : ra_tc_codes[i] # 0

(* The steps of run_analysis before the Collect step *)
RA_beforeCollect == {"Clean", "Checkout", "Test", "Package", "Init", "Launch", "List", "Shape"}

\* C13: when a step before Collect fails, no collector worker was ever
\* started and no dataset was retrieved; a collector is started only after
\* the shaping has succeeded.
C13_NoCollectorBeforeCollect ==
    /\ ra_failed \in RA_beforeCollect =>
          /\ ~ra_stat_started /\ ~ra_load_started
          /\ ra_stopped_perf = <<>> /\ ra_stopped_stats = <<>>
    /\ (ra_stat_started \/ ra_load_started) => "Shape" \in ra_done

\* C14: in run_analysis the DockerStatCollector is never started with its
\* containers unset: set_containers() was called before start_collecting().
C14_SetBeforeStart == ra_stat_started => ra_stat_set

\* C15: once both datasets are trimmed, run_analysis returns them as its
\* result, having started a kill for every listed container, whether a kill
\* returned, raised or was still running when its join ended; a kill still
\* running is reported and nothing more.
C15_TeardownNeverFatal ==
    (ra_pc = "trimmed") ~>
        /\ ra_pc = "return"
        /\ ra_failed = ""
        /\ ra_result = Some([docker_stats |-> ra_docker_stats_data,
                             client_perf |-> ra_client_perf_data])
        /\ Len(ra_kills) = Len(Get(ra_containers))
        /\ \A i \in 1..Len(ra_kills) :
              ra_kills[i].reported = (ra_kills[i].outcome = "alive")

\* C15 witness: run_analysis returned its result after a kill that was
\* still running when its join ended, followed by a kill that raised.
C15_Witness ==
    /\ ra_pc = "return"
    /\ ra_result # None
    /\ Len(ra_kills) = 2
    /\ ra_kills[1].outcome = "alive"
    /\ ra_kills[2].outcome = "raised"

(* The exceptions that leave run_analysis *)
RA_errors == {"CalledProcessError", "GitCommandError", "DockerException", "APIError",
              "RuntimeError", "ValueError"}

\* C16: run_analysis returns a result only at its end, when no step raised,
\* the command of every step succeeded and both collectors were stopped, and
\* the result holds both datasets as trimmed (the records of the stopped
\* datasets later than the least timestamp plus the spin-up time, in order);
\* when a step raised, run_analysis ended with that exception and returned
\* nothing.
C16_CompleteResultOrNone ==
    /\ ra_result # None =>
          /\ ra_pc = "return"
          /\ ra_failed = ""
          /\ RA_stepsToTrim \cup {"Trim"} \subseteq ra_done
          /\ DOMAIN Get(ra_result) = {"docker_stats", "client_perf"}
          /\ LET stamps == {ra_stopped_perf[i].start : i \in 1..Len(ra_stopped_perf)}
                            \cup {ra_stopped_stats[i].time : i \in 1..Len(ra_stopped_stats)}
                  anchor == CHOOSE t \in stamps : \A u \in stamps : t <= u
              IN  /\ ra_stopped_perf # <<>> /\ ra_stopped_stats # <<>>
                  /\ KeepsExactly(Get(ra_result).client_perf, ra_stopped_perf,
                                  [i \in 1..Len(ra_stopped_perf) |-> ra_stopped_perf[i].start],
                                  anchor + ra_spinup_time)
                  /\ KeepsExactly(Get(ra_result).docker_stats, ra_stopped_stats,
                                  [i \in 1..Len(ra_stopped_stats) |-> ra_stopped_stats[i].time],
                                  anchor + ra_spinup_time)
    /\ ra_failed # "" => ra_result = None /\ ra_pc \in RA_errors
    /\ ra_pc \in RA_errors => ra_failed # ""

\* C16 witness: a result returned whose two datasets are not empty and of
\* which the trim removed a record.
C16_Witness ==
    /\ ra_result # None
    /\ Get(ra_result).client_perf # <<>>
    /\ Get(ra_result).docker_stats # <<>>
    /\ Len(Get(ra_result).docker_stats) < Len(ra_stopped_stats)

\* C17: when a backend error ended the metrics worker while it read a
\* stream, no stop_collecting() call returns normally: the error reaches the
\* caller.
C17_StreamErrorPropagates ==
    ds_exc = "APIError" => \A i \in 1..Len(ds_stops) : ds_stops[i].res # "return"

\* C18: for both collectors, a stop_collecting() call made before
\* start_collecting() ends at once with RuntimeError: the caller does not
\* wait and the call does not return.
C18_StopBeforeStartFails ==
    [][/\ (/\ cp_collector_thread = "new"
           /\ cp_caller = "idle"
           /\ (cp_stops' # cp_stops \/ cp_stop_event' # cp_stop_event))
          => /\ cp_caller' = "idle"
             /\ Len(cp_stops') = Len(cp_stops) + 1
             /\ cp_stops'[Len(cp_stops')].res = "RuntimeError"
       /\ (/\ ds_collector_thread = "new"
           /\ ds_caller = "idle"
           /\ (ds_stops' # ds_stops \/ ds_stop_event' # ds_stop_event))
          => /\ ds_caller' = "idle"
             /\ Len(ds_stops') = Len(ds_stops) + 1
             /\ ds_stops'[Len(ds_stops')].res = "RuntimeError"]_vars

\* C18 witness: a ClientPerfCollector never started whose first
\* stop_collecting() call ended with RuntimeError.
C18_Witness ==
    /\ cp_collector_thread = "new"
    /\ Len(cp_stops) = 1
    /\ cp_stops[1].res = "RuntimeError"

\* C18, the DockerStatCollector's case of the same: reachable as well.
C18_WitnessDocker ==
    /\ ds_collector_thread = "new"
    /\ Len(ds_stops) = 1
    /\ ds_stops[1].res = "RuntimeError"

\* C19: for a snapshot with a timestamp and no networks section, whatever
\* its memory and CPU fields hold or lack, extract returns None without
\* raising and collect appends no record.
C19_NoNetworksIsIncomplete ==
    (ex_pc = "done" /\ ex_data.networks = None) =>
        /\ ex_result.exc = ""
        /\ ex_result.ret = None
        /\ ex_collected = <<>>

\* C19 witness: extract was called on a snapshot without a networks section
\* whose memory section is missing too and that lacks a precpu counter.
C19_Witness ==
    /\ ex_pc = "done"
    /\ ex_data.networks = None
    /\ ex_data.memory_stats = None
    /\ ex_data.precpu_stats.system_cpu_usage = None

(* The sum of rx_bytes + tx_bytes over the interfaces at the places I of a *)
(* networks section, in no order                                           *)
RECURSIVE TrafficOf(_, _)
TrafficOf(networks, I) ==
    IF I = {} THEN 0
    ELSE LET k == CHOOSE k \in I : TRUE
         IN  networks[k].rx_bytes + networks[k].tx_bytes + TrafficOf(networks, I \ {k})

(* The networks section with its interfaces listed in the opposite order *)
Reversed(networks) == [k \in 1..Len(networks) |-> networks[Len(networks) + 1 - k]]

\* C20: for a snapshot with a networks section of which extract returns a
\* record, total_net_traffic is the sum of rx_bytes + tx_bytes over all
\* interfaces, the same for the interfaces listed in the opposite order, and
\* 0 for no interface.
C20_TrafficIsSum ==
    (ex_pc = "done" /\ ex_data.networks # None /\ ex_result.ret # None) =>
        LET networks == Get(ex_data.networks)
            record == Get(ex_result.ret)
            other == extract([ex_data EXCEPT !.networks = Some(Reversed(networks))])
        IN  /\ record.total_net_traffic = TrafficOf(networks, 1..Len(networks))
            /\ other.ret # None
            /\ Get(other.ret).total_net_traffic = record.total_net_traffic
            /\ networks = <<>> => record.total_net_traffic = 0
            /\ ex_collected = <<record>>

\* C20 witness: a record returned for a snapshot with two interfaces of
\* different traffic.
C20_Witness ==
    /\ ex_pc = "done"
    /\ ex_result.ret # None
    /\ Len(Get(ex_data.networks)) = 2
    /\ Get(ex_data.networks)[1].rx_bytes # Get(ex_data.networks)[2].rx_bytes
    /\ Get(ex_data.networks)[1].tx_bytes # Get(ex_data.networks)[2].tx_bytes
    /\ Get(ex_result.ret).total_net_traffic > 0

(* A snapshot is complete: it has a networks section and a memory section  *)
(* with a limit other than 0.                                              *)
Complete(data) ==
    /\ data.networks # None
    /\ data.memory_stats # None
    /\ Get(data.memory_stats).limit # 0

(* Both precpu counters of a snapshot are present *)
HasBaseline(data) ==
    /\ data.precpu_stats.total_usage # None
    /\ data.precpu_stats.system_cpu_usage # None

\* C21: for every complete snapshot extract returns a record, whose
\* cpu_usage is 0 when a precpu counter is missing and otherwise
\* (cur_total - prev_total) / (cur_sys - prev_sys), for all counter values,
\* equal system counters included.
C21_CpuRatioOrZero ==
    (ex_pc = "done" /\ Complete(ex_data)) =>
        /\ ex_result.exc = ""
        /\ ex_result.ret # None
        /\ IF HasBaseline(ex_data)
             THEN Get(ex_result.ret).cpu_usage =
                    PyDiv(ex_data.cpu_stats.total_usage
                            - Get(ex_data.precpu_stats.total_usage),
                          ex_data.cpu_stats.system_cpu_usage
                            - Get(ex_data.precpu_stats.system_cpu_usage))
             ELSE Get(ex_result.ret).cpu_usage = 0

(* A snapshot with its networks and memory sections whose memory limit is 0 *)
ZeroLimit(data) ==
    /\ data.networks # None
    /\ data.memory_stats # None
    /\ Get(data.memory_stats).limit = 0

\* C22: a snapshot whose memory limit is 0 is incomplete: extract returns
\* None for it without raising, and the worker of the DockerStatCollector
\* is never ended by a division by zero while it consumes a snapshot.
C22_ZeroLimitIsIncomplete ==
    /\ (ex_pc = "done" /\ ZeroLimit(ex_data)) => ex_result = Ret(None)
    /\ ~(ds_exc = "ZeroDivisionError" /\ ds_gen_pc \in {"for", "rr"})

(* The items of the streams given to roundrobin *)
RR_items == {it \in (1..Len(rr_streams)) \X (1..MaxItems) : it[2] <= rr_streams[it[1]]}

(* Item a belongs to an earlier round than item b, or to the same round    *)
(* and an earlier stream                                                   *)
RR_before(a, b) == a[2] < b[2] \/ (a[2] = b[2] /\ a[1] < b[1])

\* C23: the output of roundrobin over finite streams holds items of the
\* streams only, ordered by round and, within a round, by the order of
\* the streams (so every stream's own order is kept and no stream gives a
\* second item in a round); no item is passed over, and when roundrobin
\* ends every item has been yielded.
C23_RoundRobinOrder ==
    /\ \A p \in 1..Len(rr_out) : rr_out[p] \in RR_items
    /\ \A p, q \in 1..Len(rr_out) : p < q => RR_before(rr_out[p], rr_out[q])
    /\ \A p \in 1..Len(rr_out) : \A it \in RR_items :
         RR_before(it, rr_out[p]) => \E q \in 1..(p - 1) : rr_out[q] = it
    /\ rr_pc = "done" => Len(rr_out) = Cardinality(RR_items)

(* {A1, A2}, {B1}, {C1, C2, C3} has given A1, B1, C1, A2, C2, C3 *)
C23_Witness ==
    /\ rr_pc = "done"
    /\ rr_streams = <<2, 1, 3>>
    /\ rr_out = <<(<<1, 1>>), (<<2, 1>>), (<<3, 1>>), (<<1, 2>>), (<<3, 2>>), (<<3, 3>>)>>

\* C24: a stream that never gives an item and never ends does not hold up
\* the multiplexer while another stream is open: the generator gets past
\* it, and once a stop is requested the worker ends.
C24_SilentStreamSkipped ==
    /\ (ds_gen_pc = "blocked" /\ Len(ds_rr) >= 2) ~> (ds_gen_pc # "blocked")
    /\ (ds_gen_pc = "blocked" /\ Len(ds_rr) >= 2 /\ ds_stop_event)
          ~> (ds_collector_thread = "exited")

\* C25: when run_analysis has ended, by its return or by an exception,
\* after it launched the system and started the stats collector, the
\* launched process has been killed, a kill was attempted for every listed
\* container, and every collector that was started has been stopped.
C25_TeardownOnEveryExit ==
    (ra_pc \in RA_errors \cup {"return"} /\ "Launch" \in ra_done /\ ra_stat_started) =>
        /\ ra_proc = "killed"
        /\ ra_containers # None => Len(ra_kills) = Len(Get(ra_containers))
        /\ "StopStats" \in ra_done
        /\ ra_load_started => "StopLoad" \in ra_done

====
